---------------------------- MODULE Spec2Model ----------------------------
(***************************************************************************)
(* Job Buddy (src/app.py): the analytics computed by the Dashboard and the *)
(* More Analysis pages from the e-mail headers fetched from Gmail.         *)
(*                                                                         *)
(* A date is its proleptic Gregorian ordinal (datetime.date.toordinal);    *)
(* a timestamp is ordinal * TicksPerDay + tick of the day, in UTC.         *)
(***************************************************************************)
EXTENDS Integers, Sequences, FiniteSets, TLC

\* ------------------------------------------------------------- bounds
\* Resolution of the time of day (ticks in one day).
TicksPerDay == 2

\* ------------------------------------------------------------- calendar
\* datetime._is_leap
IsLeap(y) == y % 4 = 0 /\ (y % 100 # 0 \/ y % 400 = 0)

\* datetime._days_before_year
DaysBeforeYear(y) ==
    LET p == y - 1 IN p * 365 + (p \div 4) - (p \div 100) + (p \div 400)

\* datetime._days_in_month
DaysInMonth(y, m) ==
    IF m = 2 THEN (IF IsLeap(y) THEN 29 ELSE 28)
    ELSE IF m \in {4, 6, 9, 11} THEN 30 ELSE 31

\* datetime._days_before_month
RECURSIVE DaysBeforeMonth(_, _)
DaysBeforeMonth(y, m) ==
    IF m = 1 THEN 0 ELSE DaysBeforeMonth(y, m - 1) + DaysInMonth(y, m - 1)

\* datetime._ymd2ord: the ordinal of a calendar date
Ymd2Ord(y, m, d) == DaysBeforeYear(y) + DaysBeforeMonth(y, m) + d

\* the year of an ordinal, as datetime._ord2ymd finds it from the 400-, 100-,
\* 4- and 1-year cycles
YearOfOrd(n) ==
    LET n0   == n - 1
        n400 == n0 \div 146097
        r400 == n0 % 146097
        n100 == r400 \div 36524
        r100 == r400 % 36524
        n4   == r100 \div 1461
        r4   == r100 % 1461
        n1   == r4 \div 365
        y    == n400 * 400 + n100 * 100 + n4 * 4 + n1 + 1
    IN  IF n1 = 4 \/ n100 = 4 THEN y - 1 ELSE y

\* the month of a day of the year (1-based), scanning the months as
\* datetime._ord2ymd does after its estimate
RECURSIVE MonthOfYearDay(_, _, _)
MonthOfYearDay(y, yd, m) ==
    IF yd <= DaysInMonth(y, m) THEN m
    ELSE MonthOfYearDay(y, yd - DaysInMonth(y, m), m + 1)

\* datetime._ord2ymd: [year, month, day] of an ordinal
Ord2Ymd(n) ==
    LET y  == YearOfOrd(n)
        yd == n - DaysBeforeYear(y)
        m  == MonthOfYearDay(y, yd, 1)
    IN  [year |-> y, month |-> m, day |-> yd - DaysBeforeMonth(y, m)]

\* date.weekday(): 0 = Monday .. 6 = Sunday
Weekday(n) == (n + 6) % 7

\* datetime._isoweek1monday: the Monday that starts ISO week 1 of a year
IsoWeek1Monday(y) ==
    LET firstday     == Ymd2Ord(y, 1, 1)
        firstweekday == (firstday + 6) % 7
        week1monday  == firstday - firstweekday
    IN  IF firstweekday > 3 THEN week1monday + 7 ELSE week1monday

\* date.isocalendar(): <<ISO year, ISO week>>
IsoCalendar(n) ==
    LET y    == Ord2Ymd(n).year
        week == (n - IsoWeek1Monday(y)) \div 7
    IN  IF week < 0
        THEN <<y - 1, ((n - IsoWeek1Monday(y - 1)) \div 7) + 1>>
        ELSE IF week >= 52 /\ n >= IsoWeek1Monday(y + 1)
        THEN <<y + 1, 1>>
        ELSE <<y, week + 1>>

\* ------------------------------------------------------------- text
\* A string is the sequence of its character codes.
\* str(n) of a non-negative integer: its decimal digits, no padding
RECURSIVE Str(_)
Str(n) == IF n < 10 THEN <<48 + n>> ELSE Str(n \div 10) \o <<48 + (n % 10)>>

\* str.zfill(width): zeros on the left up to the width
RECURSIVE Zfill(_, _)
Zfill(s, width) == IF Len(s) >= width THEN s ELSE Zfill(<<48>> \o s, width)

\* "-W"
DashW == <<45, 87>>

\* s < t in Python's (and pandas' object column) string order
RECURSIVE StrLess(_, _)
StrLess(s, t) ==
    IF t = <<>> THEN FALSE
    ELSE IF s = <<>> THEN TRUE
    ELSE IF Head(s) # Head(t) THEN Head(s) < Head(t)
    ELSE StrLess(Tail(s), Tail(t))

\* ------------------------------------------------------------- floats
\* A positive binary64 value is [m, e]: m its 53 significand bits, most
\* significant first, e the exponent of m[1]; zero has no bits.
FloatZero == [m |-> <<>>, e |-> 0]

\* 2^k, by squaring
RECURSIVE Pow2(_)
Pow2(k) ==
    IF k = 0 THEN 1
    ELSE LET h == Pow2(k \div 2) IN IF k % 2 = 0 THEN h * h ELSE 2 * h * h

\* 2^k modulo den, by squaring
RECURSIVE Pow2Mod(_, _)
Pow2Mod(k, den) ==
    IF k = 0 THEN 1 % den
    ELSE LET h == Pow2Mod(k \div 2, den)
         IN  IF k % 2 = 0 THEN (h * h) % den ELSE (2 * h * h) % den

\* the e with 2^e <= c/g < 2^(e+1), for c, g > 0
RECURSIVE FloorLog2(_, _)
FloorLog2(c, g) ==
    IF c < g THEN FloorLog2(2 * c, g) - 1
    ELSE IF c >= 2 * g THEN FloorLog2(c, 2 * g) + 1
    ELSE 0

\* what long division of num by den leaves after k binary places
Remainder(num, den, k) == (num * Pow2Mod(k, den)) % den

\* the first k bits of num/den (den <= num < 2*den) by long division: the
\* leading 1, then a 1 wherever the doubled remainder reaches den
QuotientBits(num, den, k) ==
    [i \in 1..k |->
        IF i = 1 THEN 1 ELSE (2 * Remainder(num, den, i - 2)) \div den]

\* whether anything of num/den is left after its first k bits
QuotientInexact(num, den, k) == Remainder(num, den, k - 1) # 0

Zeros(k) == [i \in 1..k |-> 0]

\* bits + 1, with the carry out
BitsInc(bits) ==
    LET n     == Len(bits)
        zeros == {i \in 1..n : bits[i] = 0}
    IN  IF zeros = {}
        THEN [bits |-> Zeros(n), carry |-> 1]
        ELSE LET j == CHOOSE i \in zeros : \A k \in zeros : k <= i
             IN  [bits  |-> [i \in 1..n |-> IF i < j THEN bits[i]
                                            ELSE IF i = j THEN 1 ELSE 0],
                  carry |-> 0]

AnyOne(bits) == \E i \in 1..Len(bits) : bits[i] = 1

\* round-to-nearest, ties-to-even, of the exact value whose bits (leading
\* bit 1, exponent e) are given, with `sticky` saying more follows
RoundToDouble(bits, sticky, e) ==
    IF Len(bits) <= 53
    THEN [m |-> bits \o Zeros(53 - Len(bits)), e |-> e]
    ELSE LET keep  == SubSeq(bits, 1, 53)
             guard == bits[54]
             rest  == sticky \/ AnyOne(SubSeq(bits, 55, Len(bits)))
         IN  IF guard = 1 /\ (rest \/ keep[53] = 1)
             THEN LET up == BitsInc(keep)
                  IN  IF up.carry = 1
                      THEN [m |-> <<1>> \o Zeros(52), e |-> e + 1]
                      ELSE [m |-> up.bits, e |-> e]
             ELSE [m |-> keep, e |-> e]

\* c / g of two Python ints (c >= 0, g > 0): the correctly rounded quotient
TrueDiv(c, g) ==
    IF c = 0 THEN FloatZero
    ELSE LET e   == FloorLog2(c, g)
             num == IF e >= 0 THEN c ELSE c * Pow2(0 - e)
             den == IF e >= 0 THEN g * Pow2(e) ELSE g
         IN  RoundToDouble(QuotientBits(num, den, 54),
                           QuotientInexact(num, den, 54), e)

\* the low `width` binary digits of n, most significant first
FixedBits(n, width) == [i \in 1..width |-> (n \div Pow2(width - i)) % 2]

\* the binary digits of a non-negative integer below 2^30, most significant
\* first, none for 0
IntBits(n) ==
    FixedBits(n, CHOOSE w \in 0..30 : n < Pow2(w) /\ (w = 0 \/ n >= Pow2(w - 1)))

\* the integer of a sequence of bits, by halves
RECURSIVE BitsValue(_)
BitsValue(bits) ==
    LET n == Len(bits)
    IN  IF n = 0 THEN 0
        ELSE IF n = 1 THEN bits[1]
        ELSE LET h == n \div 2
             IN  BitsValue(SubSeq(bits, 1, h)) * Pow2(n - h)
                    + BitsValue(SubSeq(bits, h + 1, n))

\* bits * k, exactly, for a small integer k: the 53 bits are multiplied in
\* three limbs of at most 18 bits, carrying from the low limb upward
BitsTimes(bits, k) ==
    LET n    == Len(bits)
        lo   == BitsValue(SubSeq(bits, n - 17, n)) * k
        mid  == BitsValue(SubSeq(bits, n - 35, n - 18)) * k + (lo \div Pow2(18))
        high == BitsValue(SubSeq(bits, 1, n - 36)) * k + (mid \div Pow2(18))
    IN  IntBits(high) \o FixedBits(mid % Pow2(18), 18) \o FixedBits(lo % Pow2(18), 18)

\* f * k for a float f and a small positive integer k (exact as a float)
FloatTimes(f, k) ==
    IF f.m = <<>> THEN FloatZero
    ELSE LET prod == BitsTimes(f.m, k)
         IN  RoundToDouble(prod, FALSE, f.e + (Len(prod) - Len(f.m)))

\* int(f): truncation toward zero (f >= 0, below 2^31)
FloatToInt(f) ==
    IF f.m = <<>> \/ f.e < 0 THEN 0 ELSE BitsValue(SubSeq(f.m, 1, f.e + 1))

\* ------------------------------------------------------------- pandas
\* a missing number (the NaN of a merge without a match) and a missing
\* timestamp (the NaT of errors="coerce")
NaN == -1
NaT == -1

Min(a, b) == IF a <= b THEN a ELSE b
Max(a, b) == IF a >= b THEN a ELSE b

SetMin(S) == CHOOSE v \in S : \A w \in S : v <= w

\* the elements of a finite set of integers in ascending order (the order in
\* which groupby and sort_values leave integer keys)
RECURSIVE SortedSeq(_)
SortedSeq(S) ==
    IF S = {} THEN <<>>
    ELSE LET v == SetMin(S) IN <<v>> \o SortedSeq(S \ {v})

\* range(start, stop, step) for step > 0
Range(start, stop, step) ==
    [i \in 1..(IF stop <= start THEN 0 ELSE ((stop - start - 1) \div step) + 1)
        |-> start + (i - 1) * step]

\* round(num / den) for integers num >= 0, den > 0: Python rounds to the
\* nearest integer and an exact half to the even neighbour
PyRound(num, den) ==
    LET q == num \div den
        r == num % den
    IN  IF 2 * r < den THEN q
        ELSE IF 2 * r > den THEN q + 1
        ELSE IF q % 2 = 0 THEN q ELSE q + 1

\* how many rows of a frame satisfy a test
CountRows(rows, Test(_)) == Cardinality({i \in 1..Len(rows) : Test(rows[i])})

\* pd.to_datetime(header, errors="coerce", utc=True).tz_convert(None): the
\* UTC instant of a header that parses, NaT of one that does not.  A header
\* is [ok, wall, off]: whether it parses, its wall-clock time and its
\* offset from UTC, both in ticks.
ToDatetimeUtc(h) == IF h.ok THEN h.wall - h.off ELSE NaT

\* The format pd.to_datetime reads the whole column with.  A pandas that
\* parses with a consistent format (2.0 and later) guesses the format of the
\* first element and applies it to every element; when the first element has
\* no format to guess, and in an earlier pandas, every element is parsed on
\* its own ("any").
AnyFormat == "any"

ColumnFormat(items, consistent) ==
    IF consistent /\ Len(items) > 0 /\ items[1].Date.ok
    THEN items[1].Date.fmt
    ELSE AnyFormat

\* pd.to_datetime(column, errors="coerce", utc=True).dt.tz_convert(None): an
\* element that does not parse with the format of the column is NaT
ToDatetimeColumn(items, consistent) ==
    LET format == ColumnFormat(items, consistent)
    IN  [i \in 1..Len(items) |->
            [Date |-> IF format = AnyFormat \/ ~items[i].Date.ok
                         \/ items[i].Date.fmt = format
                      THEN ToDatetimeUtc(items[i].Date)
                      ELSE NaT]]

\* the Date column of the frame after the coercion and dropna(subset=["Date"])
CleanDates(items, consistent) ==
    SelectSeq(ToDatetimeColumn(items, consistent), LAMBDA row : row.Date # NaT)

\* .dt.date of a timestamp: its calendar date
DateOnly(ts) == ts \div TicksPerDay

\* pd.to_datetime of a calendar date: its midnight
DateToTimestamp(d) == d * TicksPerDay

\* frame.groupby(column).size().reset_index(name="Applications"), for a
\* column of integers given by Key: one row per distinct key, ascending
GroupSize(rows, Key(_)) ==
    LET keys == SortedSeq({Key(rows[i]) : i \in 1..Len(rows)})
    IN  [k \in 1..Len(keys) |->
            [key |-> keys[k],
             Applications |-> CountRows(rows, LAMBDA row : Key(row) = keys[k])]]

\* the sum of a column of counts, by halves
RECURSIVE SumApplications(_)
SumApplications(rows) ==
    LET n == Len(rows)
    IN  IF n = 0 THEN 0
        ELSE IF n = 1 THEN rows[1].Applications
        ELSE SumApplications(SubSeq(rows, 1, n \div 2))
                + SumApplications(SubSeq(rows, (n \div 2) + 1, n))

\* ------------------------------------------------------------- calendar heatmap
\* strftime("%b")
MonthAbbr ==
    <<"Jan", "Feb", "Mar", "Apr", "May", "Jun",
      "Jul", "Aug", "Sep", "Oct", "Nov", "Dec">>

\* by_date: the applications of each distinct date, with the weekday, month
\* number and month label of the date
ByDate(df) ==
    LET dates  == [i \in 1..Len(df) |-> [Date_Only |-> DateToTimestamp(df[i].Date_Only)]]
        counts == GroupSize(dates, LAMBDA row : row.Date_Only)
    IN  [k \in 1..Len(counts) |->
            LET d == DateOnly(counts[k].key) IN
            [Date_Only    |-> counts[k].key,
             Applications |-> counts[k].Applications,
             Day_Num      |-> Weekday(d),
             Month_Num    |-> Ord2Ymd(d).month,
             Month        |-> MonthAbbr[Ord2Ymd(d).month]]]

\* the rank of a (Month_Num, Day_Num) group key in the order of groupby
GroupRank(row) == row.Month_Num * 7 + row.Day_Num

\* agg with .first() where the code has .sum()
AggFirst(by_date) ==
    LET keys == SortedSeq({GroupRank(by_date[i]) : i \in 1..Len(by_date)})
    IN  [k \in 1..Len(keys) |->
            LET members == SelectSeq(by_date, LAMBDA row : GroupRank(row) = keys[k])
            IN  [Month_Num    |-> members[1].Month_Num,
                 Month        |-> members[1].Month,
                 Day_Num      |-> members[1].Day_Num,
                 Applications |-> members[1].Applications]]

\* agg: by_date summed per (Month_Num, Month, Day_Num)
Agg(by_date) ==
    LET keys == SortedSeq({GroupRank(by_date[i]) : i \in 1..Len(by_date)})
    IN  [k \in 1..Len(keys) |->
            LET members == SelectSeq(by_date, LAMBDA row : GroupRank(row) = keys[k])
            IN  [Month_Num    |-> members[1].Month_Num,
                 Month        |-> members[1].Month,
                 Day_Num      |-> members[1].Day_Num,
                 Applications |-> SumApplications(members)]]

\* all_months: the distinct (Month_Num, Month) of agg, by Month_Num
AllMonths(agg) ==
    LET nums == SortedSeq({agg[i].Month_Num : i \in 1..Len(agg)})
    IN  [k \in 1..Len(nums) |-> [Month_Num |-> nums[k], Month |-> MonthAbbr[nums[k]]]]

\* all_days: Day_Num 0..6
AllDays == [i \in 1..7 |-> [Day_Num |-> i - 1]]

\* months.assign(key=1).merge(days.assign(key=1), on="key", how="outer")
\* .drop(columns="key"): every row of either side has the key 1, so each
\* month row pairs with each day row; an outer merge also keeps the rows of
\* one side that find no partner, with the other side's columns missing,
\* which is every row of a side when the other side is empty
OuterMergeOnKey(months, days) ==
    IF months = <<>>
    THEN [i \in 1..Len(days) |->
            [Month_Num |-> NaN, Month |-> "NaN", Day_Num |-> days[i].Day_Num]]
    ELSE IF days = <<>>
    THEN [i \in 1..Len(months) |->
            [Month_Num |-> months[i].Month_Num, Month |-> months[i].Month,
             Day_Num |-> NaN]]
    ELSE [k \in 1..(Len(months) * Len(days)) |->
            LET mrow == months[((k - 1) \div Len(days)) + 1]
                drow == days[((k - 1) % Len(days)) + 1]
            IN  [Month_Num |-> mrow.Month_Num, Month |-> mrow.Month,
                 Day_Num |-> drow.Day_Num]]

\* one row of grid.merge(agg, on=["Month_Num","Month","Day_Num"], how="left"):
\* a copy of the grid row per matching row of agg, or one copy with the
\* Applications missing when nothing matches
LeftMergeRow(cell, agg) ==
    LET hits == SelectSeq(agg, LAMBDA row :
                    /\ row.Month_Num = cell.Month_Num
                    /\ row.Month = cell.Month
                    /\ row.Day_Num = cell.Day_Num)
    IN  IF hits = <<>>
        THEN <<[Month_Num |-> cell.Month_Num, Month |-> cell.Month,
                Day_Num |-> cell.Day_Num, Applications |-> NaN]>>
        ELSE [i \in 1..Len(hits) |->
                [Month_Num |-> cell.Month_Num, Month |-> cell.Month,
                 Day_Num |-> cell.Day_Num, Applications |-> hits[i].Applications]]

\* the rows of the left merge, cell after cell (by halves)
RECURSIVE LeftMerge(_, _)
LeftMerge(cells, agg) ==
    LET n == Len(cells)
    IN  IF n = 0 THEN <<>>
        ELSE IF n = 1 THEN LeftMergeRow(cells[1], agg)
        ELSE LeftMerge(SubSeq(cells, 1, n \div 2), agg)
                \o LeftMerge(SubSeq(cells, (n \div 2) + 1, n), agg)

\* grid["Applications"].fillna(0).astype(int)
FillNa(rows) ==
    [i \in 1..Len(rows) |->
        [rows[i] EXCEPT !.Applications = IF @ = NaN THEN 0 ELSE @]]

\* grid: the month x weekday grid with the applications of each cell
Grid(by_date) ==
    LET agg == Agg(by_date)
    IN  FillNa(LeftMerge(OuterMergeOnKey(AllMonths(agg), AllDays), agg))

\* grid["Applications"].max() of a grid that has rows
MaxApps(grid) ==
    LET vals == {grid[i].Applications : i \in 1..Len(grid)}
    IN  CHOOSE v \in vals : \A w \in vals : w <= v

\* tick_values without the append of the maximum
TickValuesNoAppend(max_apps) ==
    IF max_apps <= 7
    THEN Range(0, max_apps + 1, 1)
    ELSE Range(0, max_apps + 1, Max(1, PyRound(max_apps, 5)))

\* tick_values: the legend ticks for a maximum
TickValues(max_apps) ==
    IF max_apps <= 7
    THEN Range(0, max_apps + 1, 1)
    ELSE LET step  == Max(1, PyRound(max_apps, 5))
             ticks == Range(0, max_apps + 1, step)
         IN  IF ticks[Len(ticks)] # max_apps
             THEN Append(ticks, max_apps)
             ELSE ticks

\* ------------------------------------------------------------- weekly goal
\* strftime("%Y-W%V"): the calendar year where the code has the ISO year
YearWeekCalendarYear(ts) ==
    Zfill(Str(Ord2Ymd(DateOnly(ts)).year), 4) \o DashW
        \o Zfill(Str(IsoCalendar(DateOnly(ts))[2]), 2)

\* df["Date"].dt.strftime("%G-W%V"): the ISO year in four digits, "-W", the
\* ISO week in two digits
YearWeek(ts) ==
    LET iso == IsoCalendar(DateOnly(ts))
    IN  Zfill(Str(iso[1]), 4) \o DashW \o Zfill(Str(iso[2]), 2)

\* f"{current_week[0]}-W{str(current_week[1]).zfill(2)}" of today.isocalendar()
CurrentYearWeek(today) ==
    LET current_week == IsoCalendar(today)
    IN  Str(current_week[1]) \o DashW \o Zfill(Str(current_week[2]), 2)

\* len(df[df["Year_Week"] == current_year_week])
CountWeeklyApps(df, today) ==
    LET current_year_week == CurrentYearWeek(today)
    IN  CountRows(df, LAMBDA row : row.Year_Week = current_year_week)

\* int((count_weekly_apps / weekly_goal) * 100) if weekly_goal > 0 else 0,
\* capped by min(progress_percent, 100)
ProgressPercent(count_weekly_apps, weekly_goal) ==
    LET progress_percent ==
            IF weekly_goal > 0
            THEN FloatToInt(FloatTimes(TrueDiv(count_weekly_apps, weekly_goal), 100))
            ELSE 0
    IN  Min(progress_percent, 100)

\* the strings of a finite set in ascending order, as sort_values orders
\* them without ascending=False
RECURSIVE SortedAscending(_)
SortedAscending(S) ==
    IF S = {} THEN <<>>
    ELSE LET v == CHOOSE u \in S : \A w \in S : ~StrLess(w, u)
         IN  <<v>> \o SortedAscending(S \ {v})

\* the greatest string of a non-empty finite set of strings
StrMax(S) == CHOOSE v \in S : \A w \in S : ~StrLess(v, w)

\* the strings of a finite set in descending order
RECURSIVE SortedDesc(_)
SortedDesc(S) ==
    IF S = {} THEN <<>>
    ELSE LET v == StrMax(S) IN <<v>> \o SortedDesc(S \ {v})

\* frame.head(n)
HeadRows(rows, n) == SubSeq(rows, 1, Min(n, Len(rows)))

\* the rows shown by "Weekly History (Last 5 Weeks)"
HistoryLimit == 5

\* df.groupby("Year_Week").size().reset_index(name="Applications")
\*   .sort_values("Year_Week", ascending=False).head(limit)
WeeklySummary(df, limit) ==
    LET keys == SortedDesc({df[i].Year_Week : i \in 1..Len(df)})
        rows == [k \in 1..Len(keys) |->
                    [Year_Week    |-> keys[k],
                     Applications |-> CountRows(df, LAMBDA row : row.Year_Week = keys[k])]]
    IN  HeadRows(rows, limit)

\* ------------------------------------------------------------- dashboard
\* daily counts with .nunique() where the code has .size(): the distinct
\* rows of each date
DailyCountsDistinct(df) ==
    LET keys == SortedSeq({df[i].Date_Only : i \in 1..Len(df)})
    IN  [k \in 1..Len(keys) |->
            [key |-> keys[k],
             Applications |->
                Cardinality({df[i].Date : i \in {j \in 1..Len(df) : df[j].Date_Only = keys[k]}})]]

\* daily_counts = df.groupby("Date_Only").size()
DailyCounts(df) == GroupSize(df, LAMBDA row : row.Date_Only)

\* int(daily_counts.mean()) without the round
AvgPerDayTruncated(daily_counts) ==
    IF daily_counts = <<>> THEN 0
    ELSE SumApplications(daily_counts) \div Len(daily_counts)

\* int(round(daily_counts.mean())) if not daily_counts.empty else 0
AvgPerDay(daily_counts) ==
    IF daily_counts = <<>> THEN 0
    ELSE PyRound(SumApplications(daily_counts), Len(daily_counts))

\* today.replace(day=1)
StartOfThisMonth(today) ==
    LET ymd == Ord2Ymd(today) IN Ymd2Ord(ymd.year, ymd.month, 1)

\* start_of_this_month - datetime.timedelta(days=1)
EndOfLastMonth(today) == StartOfThisMonth(today) - 1

\* a last month that starts 30 days before this month
StartOfLastMonthThirtyDays(today) == StartOfThisMonth(today) - 30

\* (start_of_this_month - datetime.timedelta(days=1)).replace(day=1)
StartOfLastMonth(today) ==
    LET ymd == Ord2Ymd(StartOfThisMonth(today) - 1) IN Ymd2Ord(ymd.year, ymd.month, 1)

\* today - datetime.timedelta(days=14)
TwoWeeksAgo(today) == today - 14

\* the options of the "Select Time Range" box, the first one the default
DateFilters == <<"Last 2 Weeks", "This Month", "Last Month", "All Time">>

\* df_filtered for the selected time range
FilterByRange(df, date_filter, today) ==
    IF date_filter = "Last 2 Weeks"
    THEN SelectSeq(df, LAMBDA row : row.Date_Only >= TwoWeeksAgo(today))
    ELSE IF date_filter = "This Month"
    THEN SelectSeq(df, LAMBDA row : row.Date_Only >= StartOfThisMonth(today))
    ELSE IF date_filter = "Last Month"
    THEN SelectSeq(df, LAMBDA row :
            /\ row.Date_Only >= StartOfLastMonth(today)
            /\ row.Date_Only <= EndOfLastMonth(today))
    ELSE df

\* ------------------------------------------------------------- state
VARIABLES
    data,               \* the items fetch_job_emails returns, each its Date header
    today,              \* datetime.date.today()
    weekly_goal,        \* the sidebar's weekly goal
    date_filter,        \* the selected time range
    page,               \* the page selected in the sidebar
    consistent_format,  \* pandas parses a column of dates with one format
    shown,              \* what the run has rendered
    df,                 \* the cleaned frame
    jobs_today, jobs_yesterday, jobs_last_7_days,
    daily_counts, avg_per_day, df_filtered, daily_trend,
    count_weekly_apps, progress_percent, weekly_summary,
    by_date, grid, max_apps, tick_values,
    session,            \* st.session_state: the OAuth keys of the session
    query_params,       \* st.query_params: code and state of the URL
    gmail,              \* how the Gmail API answers in this run
    issued,             \* how many state tokens authorization_url has issued
    returned,           \* what handle_oauth_callback returned in this run
    pc                  \* the position of the run in main()

\* what no run changes: the mailbox, the clock, the widgets of the pages and
\* the pandas installed
environment == <<data, today, weekly_goal, date_filter, consistent_format>>

inputs == <<environment, page, gmail>>

\* the OAuth side of the session
oauth == <<session, query_params, issued, returned>>

dashboard_out ==
    <<jobs_today, jobs_yesterday, jobs_last_7_days,
      daily_counts, avg_per_day, df_filtered, daily_trend>>

analysis_out ==
    <<count_weekly_apps, progress_percent, weekly_summary,
      by_date, grid, max_apps, tick_values>>

vars == <<inputs, shown, df, dashboard_out, analysis_out, oauth, pc>>

\* nothing of the Dashboard is on the page
NoDashboard ==
    /\ jobs_today' = 0 /\ jobs_yesterday' = 0 /\ jobs_last_7_days' = 0
    /\ daily_counts' = <<>> /\ avg_per_day' = 0
    /\ df_filtered' = <<>> /\ daily_trend' = <<>>

\* nothing of the weekly goal section is on the page
NoGoal ==
    /\ count_weekly_apps' = 0 /\ progress_percent' = 0 /\ weekly_summary' = <<>>

\* nothing of the heatmap is on the page
NoHeatmap ==
    /\ by_date' = <<>> /\ grid' = <<>> /\ max_apps' = 0 /\ tick_values' = <<>>

\* ------------------------------------------------------------- OAuth
\* a key that is not in the session or the URL, and the value None
Absent == "<absent>"
None == "<None>"

required_keys == {"token", "refresh_token", "client_id", "client_secret", "token_uri", "scopes"}
keys_to_clear == required_keys \cup {"oauth_state"}

\* the truth value Python gives a value: None and "" are false
Truthy(v) == v \notin {Absent, None, ""}

\* a session without OAuth keys, a URL without parameters
EmptySession == [k \in keys_to_clear |-> Absent]
NoParams == [code |-> Absent, state |-> Absent]

\* dict.get(key): None for a key that is absent
Get(dict, key) == IF dict[key] = Absent THEN None ELSE dict[key]

\* The authorization codes a URL can carry: one Google exchanges for
\* credentials, one it refuses, and the empty one of "?code=".
GoodCode == "4/good"
BadCode == "4/bad"
Codes == {GoodCode, BadCode, ""}

\* How many times a session asks for an authorization URL; the state tokens
\* authorization_url issues are 1..MaxLogins in turn, and 0 is a state no
\* login was ever given.
MaxLogins == 2
StateToken(n) == "state-" \o ToString(n)
States == {StateToken(n) : n \in 0..MaxLogins}

\* flow.credentials after a token exchange: Google may grant no refresh token
Credentials(refresh_token) ==
    [token |-> "access-1", refresh_token |-> refresh_token,
     token_uri |-> "https://oauth2.googleapis.com/token",
     client_id |-> "CLIENT_ID", client_secret |-> "CLIENT_SECRET",
     scopes |-> "gmail.readonly"]

\* the session with the six credential fields stored
StoreCredentials(s, creds) ==
    [k \in keys_to_clear |-> IF k \in required_keys THEN creds[k] ELSE s[k]]

\* is_authenticated()
IsAuthenticated(s) == \A k \in required_keys : s[k] # Absent /\ Truthy(s[k])

\* the session after the pops of logout()
PopOnlyCredentials(s) == [k \in keys_to_clear |-> IF k \in required_keys THEN Absent ELSE s[k]]
Popped(s) == [k \in keys_to_clear |-> Absent]

\* st.query_params.clear() inside try/except: the parameters are cleared, or
\* the failure is ignored and they stay
ClearQueryParams == query_params' \in {NoParams, query_params}

\* the answers of the Gmail API: the listing succeeds, it succeeds after the
\* expired access token is refreshed, the refresh fails, or the listing fails
\* with an HTTP status
GmailAnswers == {"ok", "refreshed", "refresh_error", "401", "403", "500"}

\* nothing of a fetching page is on the page
Blank ==
    /\ df' = <<>>
    /\ jobs_today' = 0 /\ jobs_yesterday' = 0 /\ jobs_last_7_days' = 0
    /\ daily_counts' = <<>> /\ avg_per_day' = 0
    /\ df_filtered' = <<>> /\ daily_trend' = <<>>
    /\ count_weekly_apps' = 0 /\ progress_percent' = 0 /\ weekly_summary' = <<>>
    /\ by_date' = <<>> /\ grid' = <<>> /\ max_apps' = 0 /\ tick_values' = <<>>

\* begin_google_login() behind the "Login with Google" button, then st.stop()
BeginGoogleLogin ==
    /\ pc = "auth" /\ ~IsAuthenticated(session)
    /\ issued < MaxLogins
    /\ issued' = issued + 1
    /\ session' = [session EXCEPT !["oauth_state"] = StateToken(issued + 1)]
    /\ shown' = "link"
    /\ pc' = "stopped"
    /\ UNCHANGED <<inputs, df, dashboard_out, analysis_out, query_params, returned>>

\* main() without authentication and without the button pressed: st.stop()
Stop ==
    /\ pc = "auth" /\ ~IsAuthenticated(session)
    /\ shown' = "login"
    /\ pc' = "stopped"
    /\ UNCHANGED <<inputs, df, dashboard_out, analysis_out, oauth>>

\* handle_oauth_callback() at the top of main()
HandleOauthCallback ==
    LET code == Get(query_params, "code")
        state == Get(query_params, "state")
        expected_state == Get(session, "oauth_state")
    IN  /\ pc = "callback"
        /\ pc' = "auth"
        /\ UNCHANGED <<inputs, df, dashboard_out, analysis_out, issued>>
        /\ IF ~Truthy(code)
           THEN /\ returned' = FALSE
                /\ UNCHANGED <<session, query_params, shown>>
           ELSE IF Truthy(expected_state) /\ state # expected_state
           THEN /\ returned' = FALSE
                /\ shown' = "state mismatch"
                /\ UNCHANGED <<session, query_params>>
           ELSE \/ /\ code = GoodCode
                   /\ \E refresh_token \in {"refresh-1", None} :
                        session' = StoreCredentials(session, Credentials(refresh_token))
                   /\ ClearQueryParams
                   /\ returned' = TRUE
                   /\ UNCHANGED shown
                \/ /\ returned' = FALSE
                   /\ shown' = "oauth error"
                   /\ UNCHANGED <<session, query_params>>

\* logout() behind the sidebar's "Logout" button; st.rerun() starts main() again
Logout ==
    /\ pc = "auth" /\ IsAuthenticated(session)
    /\ session' = Popped(session)
    /\ ClearQueryParams
    /\ shown' = "logged out"
    /\ pc' = "callback"
    /\ Blank
    /\ UNCHANGED <<inputs, issued, returned>>

\* get_gmail_service() and the listing inside fetch_job_emails(): what they
\* do to the session.  An expired token is refreshed and stored; a 401 or 403
\* of the listing calls logout().
LoggedOutByGmail == gmail \in {"401", "403"}

FetchJobEmails ==
    /\ UNCHANGED <<issued, returned>>
    /\ IF LoggedOutByGmail
       THEN /\ session' = Popped(session)
            /\ ClearQueryParams
       ELSE /\ session' = IF gmail = "refreshed"
                           THEN [session EXCEPT !["token"] = "access-2"]
                           ELSE session
            /\ UNCHANGED query_params

\* the items fetch_job_emails() returns: the mailbox, or [] after an error
Fetched == IF gmail \in {"ok", "refreshed"} THEN data ELSE <<>>

\* the run a 401 or 403 ends: the warning is shown and st.rerun() starts
\* main() again
Expired ==
    /\ shown' = "expired"
    /\ pc' = "callback"
    /\ Blank

\* ------------------------------------------------------------- pages
\* plot_interactive_calendar(df); int() of the maximum of a grid without
\* rows (NaN) raises ValueError and ends the run
PlotInteractiveCalendar ==
    /\ by_date' = ByDate(df')
    /\ grid' = Grid(by_date')
    /\ IF grid' = <<>>
       THEN /\ shown' = "error"
            /\ max_apps' = 0
            /\ tick_values' = <<>>
       ELSE /\ shown' = "ok"
            /\ max_apps' = MaxApps(grid')
            /\ tick_values' = TickValues(max_apps')

\* the frame after the data cleaning of both pages: the parsed Date of the
\* items that have one, and its calendar date
CleanFrame(items, consistent) ==
    LET clean == CleanDates(items, consistent)
    IN  [i \in 1..Len(clean) |->
            [Date |-> clean[i].Date, Date_Only |-> DateOnly(clean[i].Date)]]

\* df["Year_Week"] = df["Date"].dt.strftime("%G-W%V")
WithYearWeek(frame) ==
    [i \in 1..Len(frame) |->
        [Date |-> frame[i].Date, Date_Only |-> frame[i].Date_Only,
         Year_Week |-> YearWeek(frame[i].Date)]]

\* render_dashboard() after data = fetch_job_emails()
DashboardPage ==
    /\ NoGoal /\ NoHeatmap
    /\ IF Fetched = <<>>
       THEN /\ shown' = "warning"
            /\ df' = <<>>
            /\ NoDashboard
       ELSE LET yesterday   == today - 1
                last_7_days == today - 7
            IN  /\ df' = CleanFrame(Fetched, consistent_format)
                /\ jobs_today' = CountRows(df', LAMBDA row : row.Date_Only = today)
                /\ jobs_yesterday' = CountRows(df', LAMBDA row : row.Date_Only = yesterday)
                /\ jobs_last_7_days' = CountRows(df', LAMBDA row : row.Date_Only >= last_7_days)
                /\ daily_counts' = DailyCounts(df')
                /\ avg_per_day' = AvgPerDay(daily_counts')
                /\ df_filtered' = FilterByRange(df', date_filter, today)
                /\ daily_trend' = DailyCounts(df_filtered')
                /\ shown' = "ok"

\* render_dashboard() of an authenticated run of main()
RenderDashboard ==
    /\ pc = "auth" /\ IsAuthenticated(session)
    /\ page = "Dashboard"
    /\ UNCHANGED inputs
    /\ FetchJobEmails
    /\ IF LoggedOutByGmail
       THEN Expired
       ELSE pc' = "done" /\ DashboardPage

\* render_more_analysis() after data = fetch_job_emails()
MoreAnalysisPage ==
    /\ NoDashboard
    /\ IF Fetched = <<>>
       THEN /\ shown' = "warning"
            /\ df' = <<>>
            /\ NoGoal /\ NoHeatmap
       ELSE /\ df' = WithYearWeek(CleanFrame(Fetched, consistent_format))
            /\ count_weekly_apps' = CountWeeklyApps(df', today)
            /\ progress_percent' = ProgressPercent(count_weekly_apps', weekly_goal)
            /\ weekly_summary' = WeeklySummary(df', HistoryLimit)
            /\ PlotInteractiveCalendar

\* render_more_analysis() of an authenticated run of main()
RenderMoreAnalysis ==
    /\ pc = "auth" /\ IsAuthenticated(session)
    /\ page = "More Analysis"
    /\ UNCHANGED inputs
    /\ FetchJobEmails
    /\ IF LoggedOutByGmail
       THEN Expired
       ELSE pc' = "done" /\ MoreAnalysisPage

\* render_home(), render_tracking(), render_resume_analyzer(): pages that
\* fetch nothing
StaticPages == {"Home", "Tracking", "Resume Analyzer"}

RenderStatic ==
    /\ pc = "auth" /\ IsAuthenticated(session)
    /\ page \in StaticPages
    /\ shown' = "static"
    /\ pc' = "done"
    /\ Blank
    /\ UNCHANGED <<inputs, oauth>>

\* ------------------------------------------------------------- inputs
\* maxResults of the Gmail query
MaxResults == 50

\* the sidebar's number_input: min_value, max_value and value
MinGoal == 1
MaxGoal == 100
DefaultGoal == 10

\* bounds on the mailboxes explored
MaxRecords == 3
MaxHistoryRecords == 7
MaxAvgRecords == 5
RangeWindow == 44

\* The ways a Date header that parses is written: with the day of the week,
\* "Mon, 1 Jan 2024 10:00:00 +0000", and without it, "1 Jan 2024 10:00:00 +0000".
WithWeekday == "%a, %d %b %Y %H:%M:%S %z"
WithoutWeekday == "%d %b %Y %H:%M:%S %z"

\* a Date header that parses, written in format fmt with an offset of `off`
\* ticks and the wall-clock time `wall`
Header(fmt, wall, off) == [ok |-> TRUE, fmt |-> fmt, wall |-> wall, off |-> off]

\* an item whose Date header parses: the UTC instant is tick `tick` of the
\* date, written with an offset of `off` ticks
Item(y, m, d, tick, off) ==
    [Date |-> Header(WithWeekday, Ymd2Ord(y, m, d) * TicksPerDay + tick + off, off)]

\* the same item with its Date header written without the day of the week
Plain(item) ==
    [Date |-> Header(WithoutWeekday, item.Date.wall, item.Date.off)]

\* an item whose Date header does not parse
Garbage == [Date |-> [ok |-> FALSE, fmt |-> "", wall |-> 0, off |-> 0]]

SeqsUpTo(S, n) == UNION {[1..k -> S] : k \in 0..n}

\* the sequences of at most n distinct elements of S
RECURSIVE DistinctSeqsUpTo(_, _)
DistinctSeqsUpTo(S, n) ==
    IF n = 0 THEN {<<>>}
    ELSE {<<>>} \cup UNION { { <<v>> \o s : s \in DistinctSeqsUpTo(S \ {v}, n - 1) } : v \in S }

\* A run; a mailbox whose headers that parse are all written the same way is
\* read the same by every pandas, and is listed once.
Run(items, t, goal, filter, p) ==
    [data |-> items, today |-> t, weekly_goal |-> goal, date_filter |-> filter,
     page |-> p, consistent_format |-> FALSE]

\* Mailboxes around the turn of 2025/2026: a Sunday of 2025-W52, the Monday
\* and the Thursday of 2026-W01 on either side of New Year, a second January
\* Thursday of 2026, a January Thursday of 2025, a header with an offset that
\* falls on 2026-01-01 in UTC, and a header that does not parse.
TurnOfYearItems ==
    { Item(2025, 12, 28, 0, 0), Item(2025, 12, 29, 1, 0), Item(2026, 1, 1, 0, 0),
      Item(2026, 1, 8, 0, 0), Item(2025, 1, 2, 0, 0), Item(2026, 1, 1, 1, 1),
      Garbage }

TurnOfYearDays ==
    { Ymd2Ord(2025, 12, 28), Ymd2Ord(2025, 12, 31),
      Ymd2Ord(2026, 1, 1), Ymd2Ord(2026, 1, 4) }

TurnOfYearRuns ==
    { Run(items, t, DefaultGoal, DateFilters[1], p) :
        items \in SeqsUpTo(TurnOfYearItems, MaxRecords),
        t \in TurnOfYearDays,
        p \in {"Dashboard", "More Analysis"} }

\* Mailboxes of distinct items spread over six ISO weeks of two ISO years,
\* two of the items in the same week.
HistoryItems ==
    { Item(2025, 12, 8, 0, 0), Item(2025, 12, 15, 0, 0), Item(2025, 12, 22, 0, 0),
      Item(2025, 12, 28, 1, 0), Item(2025, 12, 29, 0, 0), Item(2026, 1, 5, 0, 0),
      Item(2026, 1, 12, 0, 0) }

HistoryRuns ==
    { Run(items, Ymd2Ord(2026, 1, 12), DefaultGoal, DateFilters[1], "More Analysis") :
        items \in DistinctSeqsUpTo(HistoryItems, MaxHistoryRecords) }

\* Mailboxes with up to three active days and several items a day.
BusyItems ==
    { Item(2026, 1, 5, 0, 0), Item(2026, 1, 6, 0, 0), Item(2026, 1, 7, 1, 0), Garbage }

BusyRuns ==
    { Run(items, Ymd2Ord(2026, 1, 7), DefaultGoal, DateFilters[1], "Dashboard") :
        items \in SeqsUpTo(BusyItems, MaxAvgRecords) }

\* Mailboxes of at most one item anywhere in the weeks before today, seen through
\* each time range: today in January, on the first of March of a leap year,
\* and two weeks after the first of a March.
RangeDays == { Ymd2Ord(2026, 1, 10), Ymd2Ord(2024, 3, 1), Ymd2Ord(2025, 3, 15) }

RangeRuns ==
    UNION { { Run(items, t, DefaultGoal, DateFilters[f], "Dashboard") :
                items \in {<<>>} \cup
                          { <<[Date |-> Header(WithWeekday, d * TicksPerDay, 0)]>> :
                                d \in (t - RangeWindow)..(t + 1) },
                f \in 1..Len(DateFilters) } :
            t \in RangeDays }

\* Mailboxes of up to maxResults items of one day of the current week, with
\* the least, the default and the greatest goal the sidebar accepts.
FullRuns ==
    { Run([i \in 1..k |-> Item(2026, 1, 7, 0, 0)], Ymd2Ord(2026, 1, 8), goal,
          DateFilters[1], "More Analysis") :
        k \in 0..MaxResults, goal \in {MinGoal, DefaultGoal, MaxGoal} }

\* Mailboxes whose headers are written in both ways and some not at all,
\* read by a pandas of either kind.
MaxMixedRecords == 3

MixedItems ==
    { Item(2024, 1, 1, 1, 0), Plain(Item(2024, 1, 2, 0, 0)),
      Item(2024, 1, 2, 1, 1), Garbage }

MixedRuns ==
    { [Run(items, Ymd2Ord(2024, 1, 2), DefaultGoal, DateFilters[4], p)
          EXCEPT !.consistent_format = c] :
        items \in SeqsUpTo(MixedItems, MaxMixedRecords),
        p \in {"Dashboard", "More Analysis"},
        c \in BOOLEAN }

Runs ==
    TurnOfYearRuns \cup HistoryRuns \cup BusyRuns \cup RangeRuns \cup FullRuns
        \cup MixedRuns

\* ------------------------------------------------------------- specification
\* nothing is rendered
NothingShown ==
    /\ shown = "none"
    /\ df = <<>>
    /\ jobs_today = 0 /\ jobs_yesterday = 0 /\ jobs_last_7_days = 0
    /\ daily_counts = <<>> /\ avg_per_day = 0
    /\ df_filtered = <<>> /\ daily_trend = <<>>
    /\ count_weekly_apps = 0 /\ progress_percent = 0 /\ weekly_summary = <<>>
    /\ by_date = <<>> /\ grid = <<>> /\ max_apps = 0 /\ tick_values = <<>>

\* the start of a run: the mailbox, the clock and the widgets are given and
\* nothing is rendered
Init ==
    /\ \E r \in Runs :
        /\ data = r.data
        /\ today = r.today
        /\ weekly_goal = r.weekly_goal
        /\ date_filter = r.date_filter
        /\ page = r.page
        /\ consistent_format = r.consistent_format
    /\ gmail = "ok"
    /\ session = StoreCredentials(EmptySession, Credentials("refresh-1"))
    /\ query_params = NoParams
    /\ issued = 0
    /\ returned = FALSE
    /\ pc = "auth"
    /\ NothingShown

Next == RenderDashboard \/ RenderMoreAnalysis

Spec == Init /\ [][Next]_vars

\* ------------------------------------------------------------- sessions
\* The pages of the sidebar.
Pages == {"Home", "Dashboard", "More Analysis", "Tracking", "Resume Analyzer"}

\* The mailboxes of the sessions: empty, and two items of which one parses.
SessionMailboxes == { <<>>, <<Item(2026, 1, 5, 0, 0), Garbage>> }

\* a new session opens the app: nothing is stored, the URL has no parameters
SessionInit ==
    /\ data \in SessionMailboxes
    /\ today = Ymd2Ord(2026, 1, 7)
    /\ weekly_goal = DefaultGoal
    /\ date_filter = DateFilters[1]
    /\ consistent_format = FALSE
    /\ page = "Home"
    /\ gmail = "ok"
    /\ session = EmptySession
    /\ query_params = NoParams
    /\ issued = 0
    /\ returned = FALSE
    /\ pc = "callback"
    /\ NothingShown

\* The browser arrives at the app with a code and a state in the URL, sent
\* by Google's redirect or by a link someone else made: main() runs.
Navigate ==
    /\ pc \in {"stopped", "done"}
    /\ \E code \in Codes \cup {Absent}, state \in States \cup {Absent} :
            query_params' = [code |-> code, state |-> state]
    /\ pc' = "callback"
    /\ shown' = "none"
    /\ returned' = FALSE
    /\ Blank
    /\ UNCHANGED <<inputs, session, issued>>

\* The user picks a page of the sidebar, or the page reruns, while the Gmail
\* API answers in some way: main() runs.
Interact ==
    /\ pc \in {"stopped", "done"}
    /\ page' \in Pages
    /\ gmail' \in GmailAnswers
    /\ pc' = "callback"
    /\ shown' = "none"
    /\ returned' = FALSE
    /\ Blank
    /\ UNCHANGED <<environment, session, query_params, issued>>

SessionNext ==
    \/ Navigate
    \/ Interact
    \/ HandleOauthCallback
    \/ BeginGoogleLogin
    \/ Stop
    \/ Logout
    \/ RenderStatic
    \/ RenderDashboard
    \/ RenderMoreAnalysis

SessionSpec == SessionInit /\ [][SessionNext]_vars

\* ------------------------------------------------------------- properties
DashboardShown == page = "Dashboard" /\ shown = "ok"
AnalysisShown == page = "More Analysis" /\ shown = "ok"

Rows(frame) == 1..Len(frame)

\* the months and the dates of the canonical records
MonthsPresent == {Ord2Ymd(df[i].Date_Only).month : i \in Rows(df)}
DatesPresent == {df[i].Date_Only : i \in Rows(df)}

\* the cells of the grid for a month and a weekday
CellsOf(m, wd) == {c \in Rows(grid) : grid[c].Month_Num = m /\ grid[c].Day_Num = wd}

\* C1 as stated: for every set of day buckets the grid has (months present)
\* x 7 cells, and each pair of a present month and a weekday 0..6 is in the
\* grid exactly once.
C1_GridDense ==
    AnalysisShown =>
        /\ Len(grid) = Cardinality(MonthsPresent) * 7
        /\ \A m \in MonthsPresent, wd \in 0..6 : Cardinality(CellsOf(m, wd)) = 1

\* C1 where it holds: the same, for a mailbox with at least one canonical
\* record; cells of pairs without an application are there with count 0.
C1_GridDenseWhenActive ==
    (AnalysisShown /\ df # <<>>) =>
        /\ Len(grid) = Cardinality(MonthsPresent) * 7
        /\ \A m \in MonthsPresent, wd \in 0..6 : Cardinality(CellsOf(m, wd)) = 1
        /\ \A c \in Rows(grid) : grid[c].Month_Num \in MonthsPresent

C1_Witness ==
    /\ AnalysisShown
    /\ Cardinality(MonthsPresent) = 2
    /\ Len(grid) = 14
    /\ \E c \in Rows(grid) : grid[c].Applications = 0

\* C2: the counts of the grid cells add up to the counts of the day buckets:
\* each day bucket falls in exactly one cell, and a cell holds the sum of the
\* buckets of its (month, weekday), whatever their year.
C2_GridLossless ==
    AnalysisShown =>
        /\ SumApplications(grid) = SumApplications(by_date)
        /\ \A k \in Rows(by_date) :
              Cardinality(CellsOf(by_date[k].Month_Num, by_date[k].Day_Num)) = 1
        /\ \A c \in Rows(grid) :
              grid[c].Applications =
                 SumApplications(SelectSeq(by_date, LAMBDA row :
                     /\ row.Month_Num = grid[c].Month_Num
                     /\ row.Day_Num = grid[c].Day_Num))

\* two dates of different years are added into one cell
C2_Witness ==
    /\ AnalysisShown
    /\ \E j, k \in Rows(by_date) :
          /\ Ord2Ymd(DateOnly(by_date[j].Date_Only)).year
                # Ord2Ymd(DateOnly(by_date[k].Date_Only)).year
          /\ by_date[j].Month_Num = by_date[k].Month_Num
          /\ by_date[j].Day_Num = by_date[k].Day_Num
          /\ \E c \in Rows(grid) :
                /\ grid[c].Month_Num = by_date[j].Month_Num
                /\ grid[c].Day_Num = by_date[j].Day_Num
                /\ grid[c].Applications = by_date[j].Applications + by_date[k].Applications

\* dates[k] with counts[k] are the day buckets of the canonical records
IsDayBuckets(dates, counts) ==
    /\ Len(dates) = Cardinality(DatesPresent)
    /\ {dates[k] : k \in Rows(dates)} = DatesPresent
    /\ \A k \in Rows(dates) :
          /\ counts[k] >= 1
          /\ counts[k] = Cardinality({i \in Rows(df) : df[i].Date_Only = dates[k]})
    /\ SumApplications([k \in Rows(counts) |-> [Applications |-> counts[k]]]) = Len(df)

\* C3: aggregating by day gives one bucket per distinct date that has a
\* record and none for a date without, each with the number of records of
\* its date, and the bucket counts add up to the number of canonical records.
C3_DayBuckets ==
    /\ DashboardShown =>
          IsDayBuckets([k \in Rows(daily_counts) |-> daily_counts[k].key],
                       [k \in Rows(daily_counts) |-> daily_counts[k].Applications])
    /\ AnalysisShown =>
          IsDayBuckets([k \in Rows(by_date) |-> DateOnly(by_date[k].Date_Only)],
                       [k \in Rows(by_date) |-> by_date[k].Applications])

\* two buckets with a day without records between them, one of them with
\* two records of different times of the day
C3_Witness ==
    /\ DashboardShown
    /\ Len(daily_counts) = 2
    /\ daily_counts[2].key > daily_counts[1].key + 1
    /\ \E i, j \in Rows(df) : df[i].Date_Only = df[j].Date_Only /\ df[i].Date # df[j].Date

\* the nearest integer to n / 5 (n / 5 is never half way between two)
NearestFifth(n) == CHOOSE v \in 0..n : 2 * v * 5 - 2 * n < 5 /\ 2 * n - 2 * v * 5 < 5

\* C4: the legend ticks increase strictly from 0 to maxCount; they are all
\* of 0..maxCount when maxCount <= 7, and otherwise the multiples of
\* step = max(1, round(maxCount / 5)) up to maxCount, and maxCount.
C4_LegendTicks ==
    AnalysisShown =>
        LET n     == Len(tick_values)
            step  == Max(1, NearestFifth(max_apps))
            ticks == {tick_values[i] : i \in 1..n}
        IN  /\ max_apps >= 0
            /\ n >= 1
            /\ tick_values[1] = 0
            /\ tick_values[n] = max_apps
            /\ \A i \in 1..(n - 1) : tick_values[i] < tick_values[i + 1]
            /\ max_apps <= 7 => ticks = 0..max_apps
            /\ max_apps > 7 =>
                  ticks = {v \in 0..max_apps : v % step = 0} \cup {max_apps}

C4_Witness ==
    /\ AnalysisShown
    /\ max_apps = 23
    /\ tick_values = <<0, 5, 10, 15, 20, 23>>

\* C5 as stated, for a mailbox in which no date parses: the run raises no
\* error and the grid is empty, with maxCount 0 and the ticks [0].
C5_EmptyGrid ==
    (page = "More Analysis" /\ shown # "none" /\ data # <<>> /\ df = <<>>) =>
        /\ shown = "ok"
        /\ grid = <<>>
        /\ max_apps = 0
        /\ tick_values = <<0>>

\* C5, the part that holds of such a mailbox: no error, maxCount 0, ticks [0]
C5_EmptyTicks ==
    (page = "More Analysis" /\ shown # "none" /\ data # <<>> /\ df = <<>>) =>
        /\ shown = "ok"
        /\ max_apps = 0
        /\ tick_values = <<0>>

\* C5, a single active day with a single record: one month, ticks [0, 1]
C5_SingleRecord ==
    (AnalysisShown /\ Len(df) = 1) =>
        /\ Len(grid) = 7
        /\ \A c \in Rows(grid) : grid[c].Month_Num = Ord2Ymd(df[1].Date_Only).month
        /\ tick_values = <<0, 1>>

\* C6 as stated: the progress percent is an integer of 0..100, equal to
\* min(100, floor(count * 100 / goal)) for a goal > 0 and to 0 otherwise.
C6_ProgressPercent ==
    AnalysisShown =>
        /\ progress_percent \in 0..100
        /\ weekly_goal > 0 =>
              progress_percent = Min(100, (count_weekly_apps * 100) \div weekly_goal)
        /\ weekly_goal <= 0 => progress_percent = 0

\* C6, what holds: the percent is in 0..100 and at most one below the floor
C6_ProgressPercentWithin ==
    AnalysisShown =>
        /\ progress_percent \in 0..100
        /\ weekly_goal > 0 =>
              LET exact == Min(100, (count_weekly_apps * 100) \div weekly_goal)
              IN  progress_percent \in {exact - 1, exact}

\* the Monday of the Monday-to-Sunday week of a date
MondayOf(d) == d - Weekday(d)

\* ISO 8601 by its rule: the year of a date's week is the calendar year of
\* the week's Thursday, and the week is numbered by the Thursdays of that
\* year, so that week 1 holds the year's first Thursday
IsoByThursday(d) ==
    LET thursday == MondayOf(d) + 3
        y        == Ord2Ymd(thursday).year
    IN  <<y, ((thursday - Ymd2Ord(y, 1, 1)) \div 7) + 1>>

\* C7: the current-week count is the number of canonical records of the
\* Monday-to-Sunday week of today, also across New Year; the key of a record
\* and the key of today are equal exactly when their ISO year and week are,
\* and those follow the ISO 8601 rule.
C7_CurrentWeek ==
    AnalysisShown =>
        /\ count_weekly_apps =
              Cardinality({i \in Rows(df) : MondayOf(df[i].Date_Only) = MondayOf(today)})
        /\ \A v \in {<<df[i].Year_Week, df[i].Date_Only>> : i \in Rows(df)} :
              /\ (v[1] = CurrentYearWeek(today))
                    <=> (IsoByThursday(v[2]) = IsoByThursday(today))
              /\ IsoCalendar(v[2]) = IsoByThursday(v[2])
        /\ IsoCalendar(today) = IsoByThursday(today)

\* a record of the next calendar year and one of today's year are counted
\* in today's week
C7_Witness ==
    /\ AnalysisShown
    /\ count_weekly_apps >= 2
    /\ \E i, j \in Rows(df) :
          /\ df[i].Year_Week = CurrentYearWeek(today)
          /\ df[j].Year_Week = CurrentYearWeek(today)
          /\ Ord2Ymd(df[i].Date_Only).year > Ord2Ymd(today).year
          /\ Ord2Ymd(df[j].Date_Only).year = Ord2Ymd(today).year

\* week v is before week w, for <<ISO year, ISO week>> pairs
WeekBefore(v, w) == v[1] < w[1] \/ (v[1] = w[1] /\ v[2] < w[2])

\* the ISO weeks of the canonical records
WeeksPresent == {IsoByThursday(df[i].Date_Only) : i \in Rows(df)}

\* the ISO week a row of the weekly history stands for
WeekOfRow(row) ==
    IsoByThursday(df[CHOOSE i \in Rows(df) : df[i].Year_Week = row.Year_Week].Date_Only)

\* C8: the weekly history has one entry per week of the records, with the
\* number of records of the week, most recent week first, cut to the first
\* 5; a limit of 2 leaves the two most recent weeks; the keys order as text
\* the way the weeks order in time.
C8_WeeklyHistory ==
    AnalysisShown =>
        LET n == Len(weekly_summary) IN
        /\ n = Min(HistoryLimit, Cardinality(WeeksPresent))
        /\ \A k \in 1..n :
              /\ \E i \in Rows(df) : df[i].Year_Week = weekly_summary[k].Year_Week
              /\ weekly_summary[k].Applications =
                    Cardinality({i \in Rows(df) :
                        IsoByThursday(df[i].Date_Only) = WeekOfRow(weekly_summary[k])})
        /\ \A k \in 1..(n - 1) :
              WeekBefore(WeekOfRow(weekly_summary[k + 1]), WeekOfRow(weekly_summary[k]))
        /\ \A w \in WeeksPresent :
              \/ \E k \in 1..n : WeekOfRow(weekly_summary[k]) = w
              \/ \A k \in 1..n : WeekBefore(w, WeekOfRow(weekly_summary[k]))
        /\ \A limit \in 0..HistoryLimit :
              WeeklySummary(df, limit) = SubSeq(weekly_summary, 1, Min(limit, n))
        /\ \A v, w \in {<<df[i].Year_Week, df[i].Date_Only>> : i \in Rows(df)} :
              StrLess(v[1], w[1]) <=> WeekBefore(IsoByThursday(v[2]), IsoByThursday(w[2]))

\* six weeks of two ISO years, of which the oldest is cut, and a week with
\* two records
C8_Witness ==
    /\ AnalysisShown
    /\ Cardinality(WeeksPresent) = 6
    /\ Len(weekly_summary) = 5
    /\ weekly_summary[1].Year_Week[4] # weekly_summary[5].Year_Week[4]
    /\ \E k \in 1..5 : weekly_summary[k].Applications = 2

\* C9: the average per day is the mean of the counts of the days that have
\* records, rounded to a nearest integer; it is 0 without records and the
\* day's count when one day has records.
C9_AveragePerDay ==
    DashboardShown =>
        LET days == Cardinality(DatesPresent) IN
        /\ df = <<>> => avg_per_day = 0
        /\ days = 1 => avg_per_day = Len(df)
        /\ days >= 1 =>
              /\ 2 * (avg_per_day * days - Len(df)) <= days
              /\ 2 * (Len(df) - avg_per_day * days) <= days

\* two records on each of two days with an idle day between: the idle day
\* does not lower the average
C9_Witness ==
    /\ DashboardShown
    /\ Len(df) = 4
    /\ Len(daily_counts) = 2
    /\ daily_counts[2].key = daily_counts[1].key + 2
    /\ avg_per_day = 2

\* <<year, month>> of a date
MonthOf(d) == <<Ord2Ymd(d).year, Ord2Ymd(d).month>>

\* the calendar month before a <<year, month>>
PreviousMonth(ym) == IF ym[2] = 1 THEN <<ym[1] - 1, 12>> ELSE <<ym[1], ym[2] - 1>>

\* whether a time range keeps a date
Keeps(filter, d, t) ==
    IF filter = "Last 2 Weeks" THEN d >= t - 14
    ELSE IF filter = "This Month"
    THEN MonthOf(d) = MonthOf(t) \/ WeekBefore(MonthOf(t), MonthOf(d))
    ELSE IF filter = "Last Month" THEN MonthOf(d) = PreviousMonth(MonthOf(t))
    ELSE TRUE

\* C10: the time range keeps a record exactly when its date is within the
\* last 14 days, or not before today's month, or in the calendar month
\* before today's, or always; last month and this month share no date, and
\* last month ends the day before this month starts.
C10_FilterByRange ==
    DashboardShown =>
        /\ df_filtered = SelectSeq(df, LAMBDA row : Keeps(date_filter, row.Date_Only, today))
        /\ \A f \in 1..Len(DateFilters) :
              FilterByRange(df, DateFilters[f], today)
                 = SelectSeq(df, LAMBDA row : Keeps(DateFilters[f], row.Date_Only, today))
        /\ \A i \in Rows(df) :
              ~(Keeps("Last Month", df[i].Date_Only, today)
                    /\ Keeps("This Month", df[i].Date_Only, today))
        /\ Keeps("Last Month", EndOfLastMonth(today), today)
        /\ ~Keeps("Last Month", EndOfLastMonth(today) + 1, today)
        /\ Keeps("This Month", EndOfLastMonth(today) + 1, today)
        /\ ~Keeps("This Month", EndOfLastMonth(today), today)

\* in January, last month keeps a record of the December before
C10_Witness ==
    /\ DashboardShown
    /\ date_filter = "Last Month"
    /\ Ord2Ymd(today).month = 1
    /\ Len(df_filtered) = 1
    /\ MonthOf(df_filtered[1].Date_Only) = <<Ord2Ymd(today).year - 1, 12>>


\* ------------------------------------------------------------- C11
\* the items of the mailbox whose Date header parses, in mailbox order
ParsableItems == SelectSeq(data, LAMBDA item : item.Date.ok)

\* a page has gone through its data cleaning
Cleaned == shown \in {"ok", "error"}

\* C11: normalization keeps exactly the records whose date text parses, in
\* order and with their own instant (no default date), drops every record
\* whose date text does not parse, and raises no error; an empty input gives
\* an empty canonical sequence.
C11_KeepsParsable ==
    /\ shown # "error"
    /\ Cleaned =>
          /\ Len(df) = Len(ParsableItems)
          /\ \A i \in Rows(df) :
                df[i].Date = ParsableItems[i].Date.wall - ParsableItems[i].Date.off
    /\ (shown # "none" /\ data = <<>>) => df = <<>>

\* What does hold: no record that fails to parse is kept and none gets a
\* default date (the canonical records are a subsequence of the parsable
\* ones), and all parsable records are kept when pandas parses each element
\* on its own or the headers that parse are written in one format.
OneFormat == \A i, j \in Rows(ParsableItems) : ParsableItems[i].Date.fmt = ParsableItems[j].Date.fmt

KeptFrom(i) ==
    IF ColumnFormat(data, consistent_format) = AnyFormat THEN TRUE
    ELSE ParsableItems[i].Date.fmt = ColumnFormat(data, consistent_format)

C11_DropsUnparsable ==
    Cleaned =>
        /\ Len(df) <= Len(ParsableItems)
        /\ Len(df) = Cardinality({i \in Rows(ParsableItems) : KeptFrom(i)})
        /\ (~consistent_format \/ OneFormat) => Len(df) = Len(ParsableItems)

\* the scenario [valid, "garbage", valid] gives 2 canonical records
C11_Witness ==
    /\ Cleaned
    /\ Len(data) = 3 /\ data[1].Date.ok /\ ~data[2].Date.ok /\ data[3].Date.ok
    /\ Len(df) = 2

\* ------------------------------------------------------------- C12
\* a step of handle_oauth_callback(), and what it does to the credentials
CallbackStep == pc = "callback" /\ pc' = "auth"
CredentialsWritten == returned' \/ \E k \in required_keys : session'[k] # session[k]
CredentialsUnchanged == ~returned' /\ \A k \in required_keys : session'[k] = session[k]

\* the URL carries a code, and its state is the one begin_google_login
\* issued in this session
CarriesCode == query_params.code \notin {Absent, ""}
StateIssuedHere ==
    /\ session["oauth_state"] \in {StateToken(n) : n \in 1..issued}
    /\ query_params.state = session["oauth_state"]

\* C12: handle_oauth_callback writes the credentials only when the callback
\* carries a code and its state parameter equals the oauth_state that
\* begin_google_login issued in the session; a callback with no code, with
\* another state, or whose token exchange fails returns False and leaves the
\* credential keys unchanged.
C12_StateValidated ==
    [][CallbackStep =>
          /\ CredentialsWritten => (CarriesCode /\ StateIssuedHere)
          /\ (~CarriesCode \/ ~StateIssuedHere \/ shown' = "oauth error")
                => CredentialsUnchanged]_vars

\* What does hold: the credentials are written only by a callback with a
\* code, and the state is compared only in a session that holds an
\* oauth_state; in a session that holds none, any state passes.
C12_StateComparedWhenHeld ==
    [][CallbackStep =>
          /\ CredentialsWritten =>
                /\ CarriesCode
                /\ session["oauth_state"] = Absent \/ StateIssuedHere
          /\ (~CarriesCode
                \/ (session["oauth_state"] # Absent /\ ~StateIssuedHere)
                \/ shown' = "oauth error")
                => CredentialsUnchanged]_vars

\* a session that never asked for a login is authenticated by a callback
C12_Forged ==
    /\ issued = 0
    /\ returned
    /\ IsAuthenticated(session)

\* a callback whose state differs from the oauth_state held was turned away
C12_Mismatch ==
    /\ shown = "state mismatch"
    /\ ~returned

\* ------------------------------------------------------------- C13
\* all six credential keys are in the session and truthy
CredentialKeys == {"token", "refresh_token", "client_id", "client_secret", "token_uri", "scopes"}
HoldsCredentials(s) == \A k \in CredentialKeys : s[k] \notin {Absent, None, ""}

\* a step that renders a page that fetches emails, and a step that logs
\* out: by the button, or by the 401/403 inside fetch_job_emails
FetchingPageStep == pc = "auth" /\ shown' \in {"ok", "warning", "error", "expired"}
LogoutStep == pc = "auth" /\ shown' \in {"logged out", "expired"}

\* C13: over any sequence of login, callback, page-render, fetch and logout
\* steps, a page that fetches emails is rendered only when all six
\* credential keys are present and truthy; after a logout, by the button or
\* by a 401/403 of the fetch, the six credential keys and oauth_state are
\* absent; and the session becomes authenticated only by a successful
\* OAuth callback.
C13_AuthenticatedSession ==
    [][/\ FetchingPageStep => HoldsCredentials(session)
       /\ LogoutStep =>
            \A k \in CredentialKeys \cup {"oauth_state"} : session'[k] = Absent
       /\ (~HoldsCredentials(session) /\ HoldsCredentials(session'))
            => (CallbackStep /\ returned')]_vars

\* a session that logged in through begin_google_login has been logged out
\* by a 401/403 of the fetch and holds none of the keys
C13_Witness ==
    /\ shown = "expired"
    /\ issued > 0
    /\ pc = "callback"
    /\ \A k \in CredentialKeys \cup {"oauth_state"} : session[k] = Absent

============================================================================
